---- MODULE Spec2Model ----
(***************************************************************************)
(* The export-verification workflow of src/main.rs: three routines         *)
(* (sqlx_with_shared_cache_connection, sqlx_with_pooled_connection,        *)
(* rusqlite) that seed an in-memory SQLite store, VACUUM it INTO a temp     *)
(* file, release the live handle and read the file back.  The three run    *)
(* as independent tasks, as the three #[tokio::test] functions run them.   *)
(* The database engine and the filesystem are modelled by the contract of  *)
(* the calls the routines make; every call that returns a Result may       *)
(* return an error.                                                        *)
(***************************************************************************)
EXTENDS Integers, Sequences, FiniteSets, TLC

VARIABLES
    state,          \* per routine: the workflow state reached
    trace,          \* per routine: the workflow states passed through, in order
    pos,            \* per routine: index of the next step of its program
    hist,           \* per routine: the steps executed so far (a failing one included)
    failedAt,       \* per routine: the step the run failed at, or "none"
    cause,          \* per routine: "none", "error" (a call returned Err) or "assert"
    guard,          \* per routine: new_db (the NamedTempFile) is alive
    file,           \* per routine: the file at db_path
    live,           \* per routine: the in-memory handle conn / pool
    mem,            \* per routine: the in-memory store behind the live handle
    stmt,           \* per routine: rusqlite's prepared statement
    fileConn,       \* per routine: the handle opened on db_path after the export
    things,         \* per routine: rows read from the in-memory store
    tables,         \* per routine: table names read from sqlite_master
    stored_things   \* per routine: rows read from the exported file

vars == <<state, trace, pos, hist, failedAt, cause, guard, file, live, mem,
          stmt, fileConn, things, tables, stored_things>>

ctl == <<state, trace, pos, hist, failedAt, cause>>
res == <<guard, file, live, mem, stmt, fileConn>>
dat == <<things, tables, stored_things>>

Strategies == {"shared", "pooled", "rusqlite"}
Sqlx == {"shared", "pooled"}

(***************************************************************************)
(* The engine: a store is a set of table names and the rows of table test, *)
(* kept in rowid order.                                                    *)
(***************************************************************************)
EmptyStore == [tables |-> {}, rows |-> <<>>]

\* static CREATE_TABLE with its statements swapped: 'world' inserted first.
CREATE_TABLE_Swapped ==
    << [op |-> "create", table |-> "test", name |-> ""],
       [op |-> "insert", table |-> "test", name |-> "world"],
       [op |-> "insert", table |-> "test", name |-> "hello"] >>

\* static CREATE_TABLE: one batch of three statements.
CREATE_TABLE ==
    << [op |-> "create", table |-> "test", name |-> ""],
       [op |-> "insert", table |-> "test", name |-> "hello"],
       [op |-> "insert", table |-> "test", name |-> "world"] >>

\* id integer primary key: the rowid, one more than the largest in the table.
NextRowId(rows) == IF rows = <<>> THEN 1 ELSE rows[Len(rows)].id + 1

\* One statement of a batch; r is [ok, db], an earlier error ends the batch.
ExecStatement(r, st) ==
    IF ~r.ok THEN r
    ELSE IF st.op = "create"
         THEN IF st.table \in r.db.tables
              THEN [r EXCEPT !.ok = FALSE]
              ELSE [r EXCEPT !.db.tables = @ \cup {st.table}]
         ELSE IF st.table \notin r.db.tables
              THEN [r EXCEPT !.ok = FALSE]
              ELSE [r EXCEPT !.db.rows =
                        Append(@, [id |-> NextRowId(@), name |-> st.name])]

RECURSIVE ExecuteBatch(_, _)
ExecuteBatch(r, batch) ==
    IF batch = <<>> THEN r
    ELSE ExecuteBatch(ExecStatement(r, Head(batch)), Tail(batch))

\* static SELECT_ALL, "select * from test": an error when test is no table.
SELECT_ALL(db) ==
    IF "test" \in db.tables THEN [ok |-> TRUE, rows |-> db.rows]
    ELSE [ok |-> FALSE, rows |-> <<>>]

\* "SELECT name FROM sqlite_master WHERE type='table'"
TableCatalog(db) == db.tables

(***************************************************************************)
(* The filesystem: the file at db_path exists or not; written says it      *)
(* holds a database (is not zero bytes long).                              *)
(***************************************************************************)
NoFile == [exists |-> FALSE, written |-> FALSE, db |-> EmptyStore]

\* A provisioner that hands out the path only and leaves no file there.
NamedTempFilePathOnly == NoFile

\* NamedTempFile::new(): creates a zero-byte file under a fresh name.
NamedTempFileNew == [exists |-> TRUE, written |-> FALSE, db |-> EmptyStore]

\* An export that copies the schema and loses the rows.
VacuumSchemaOnly(src, dst) ==
    IF dst.exists /\ dst.written THEN [ok |-> FALSE, file |-> dst]
    ELSE [ok |-> TRUE,
          file |-> [exists |-> TRUE, written |-> TRUE,
                    db |-> [src EXCEPT !.rows = <<>>]]]

\* vacuum into '<db_path>': copies the whole store into the file; the file
\* must be absent or empty.
vacuum_into(src, dst) ==
    IF dst.exists /\ dst.written THEN [ok |-> FALSE, file |-> dst]
    ELSE [ok |-> TRUE,
          file |-> [exists |-> TRUE, written |-> TRUE, db |-> src]]

\* A guard that is persisted: dropping it leaves the file in place.
KeepFile(f) == f

\* Drop of new_db: NamedTempFile removes its file.
DropTempFile(f) == NoFile

(***************************************************************************)
(* The three routines, as the sequence of steps each one's body makes.     *)
(***************************************************************************)
\* The existence assertion left out.
ProgramNoExistsCheck ==
    << "Provision", "Connect", "Seed", "ScanLive", "Export", "Release",
       "Reopen", "CheckCatalog", "ScanFile", "Return" >>

\* The catalog query left out.
ProgramNoCatalog ==
    << "Provision", "Connect", "Seed", "ScanLive", "Export", "Release",
       "CheckExists", "Reopen", "ScanFile", "Return" >>

\* The file opened before statement and connection are dropped.
ProgramReopenBeforeRelease ==
    << "Provision", "Connect", "Seed", "ScanLive", "Export", "Reopen",
       "Release", "ScanFile", "Return" >>

ProgramShared ==
    << "Provision", "Connect", "Seed", "ScanLive", "Export", "Release",
       "CheckExists", "Reopen", "CheckCatalog", "ScanFile", "Return" >>

ProgramPooled ==
    << "Provision", "Connect", "Seed", "ScanLive", "Export", "Release",
       "CheckExists", "Reopen", "CheckCatalog", "ScanFile", "Return" >>

ProgramRusqlite ==
    << "Provision", "Connect", "Seed", "ScanLive", "Export", "Release",
       "Reopen", "ScanFile", "Return" >>

Program(s) ==
    CASE s = "shared" -> ProgramShared
      [] s = "pooled" -> ProgramPooled
      [] s = "rusqlite" -> ProgramRusqlite

Terminal(s) == state[s] \in {"Done", "Failed"}

CurrentStep(s) ==
    IF Terminal(s) \/ pos[s] > Len(Program(s)) THEN "none"
    ELSE Program(s)[pos[s]]

Init ==
    /\ state = [s \in Strategies |-> "Start"]
    /\ trace = [s \in Strategies |-> <<"Start">>]
    /\ pos = [s \in Strategies |-> 1]
    /\ hist = [s \in Strategies |-> <<>>]
    /\ failedAt = [s \in Strategies |-> "none"]
    /\ cause = [s \in Strategies |-> "none"]
    /\ guard = [s \in Strategies |-> FALSE]
    /\ file = [s \in Strategies |-> NoFile]
    /\ live = [s \in Strategies |-> "none"]
    /\ mem = [s \in Strategies |-> EmptyStore]
    /\ stmt = [s \in Strategies |-> "none"]
    /\ fileConn = [s \in Strategies |-> "none"]
    /\ things = [s \in Strategies |-> <<>>]
    /\ tables = [s \in Strategies |-> {}]
    /\ stored_things = [s \in Strategies |-> <<>>]

\* A step returned normally: the routine goes on to its next statement.
Proceed(s, step, st) ==
    /\ pos' = [pos EXCEPT ![s] = @ + 1]
    /\ hist' = [hist EXCEPT ![s] = Append(@, step)]
    /\ state' = [state EXCEPT ![s] = st]
    /\ trace' = [trace EXCEPT ![s] = IF st = state[s] THEN @ ELSE Append(@, st)]
    /\ UNCHANGED <<failedAt, cause>>

Closed(h) == IF h = "open" THEN "closed" ELSE h

\* Every local of the routine is dropped: handles closed, the in-memory
\* store gone with its last connection, the temp file removed.
DropLocals(s) ==
    /\ live' = [live EXCEPT ![s] = Closed(@)]
    /\ stmt' = [stmt EXCEPT ![s] = Closed(@)]
    /\ fileConn' = [fileConn EXCEPT ![s] = Closed(@)]
    /\ mem' = [mem EXCEPT ![s] = EmptyStore]
    /\ guard' = [guard EXCEPT ![s] = FALSE]
    /\ file' = [file EXCEPT ![s] = IF guard[s] THEN DropTempFile(@) ELSE @]

\* The error is recorded and the routine carries on with its next statement.
AbortSwallowed(s, step, why) ==
    /\ pos' = [pos EXCEPT ![s] = @ + 1]
    /\ hist' = [hist EXCEPT ![s] = Append(@, step)]
    /\ failedAt' = [failedAt EXCEPT ![s] = step]
    /\ cause' = [cause EXCEPT ![s] = why]
    /\ UNCHANGED <<state, trace, res>>

\* `?`, unwrap() and assert!: the routine returns (or unwinds) at this step.
Abort(s, step, why) ==
    /\ state' = [state EXCEPT ![s] = "Failed"]
    /\ trace' = [trace EXCEPT ![s] = Append(@, "Failed")]
    /\ hist' = [hist EXCEPT ![s] = Append(@, step)]
    /\ failedAt' = [failedAt EXCEPT ![s] = step]
    /\ cause' = [cause EXCEPT ![s] = why]
    /\ UNCHANGED pos
    /\ DropLocals(s)

\* let new_db = NamedTempFile::new()?; let db_path = ...try_into()?;
Provision(s) ==
    /\ CurrentStep(s) = "Provision"
    /\ \E ok \in BOOLEAN :
        IF ok
        THEN /\ file' = [file EXCEPT ![s] = NamedTempFileNew]
             /\ guard' = [guard EXCEPT ![s] = TRUE]
             /\ Proceed(s, "Provision", "Provisioned")
             /\ UNCHANGED <<live, mem, stmt, fileConn>>
        ELSE Abort(s, "Provision", "error")
    /\ UNCHANGED dat

\* connect() / connect_with(options) / Connection::open_in_memory()
Connect(s) ==
    /\ CurrentStep(s) = "Connect"
    /\ \E ok \in BOOLEAN :
        IF ok
        THEN /\ live' = [live EXCEPT ![s] = "open"]
             /\ mem' = [mem EXCEPT ![s] = EmptyStore]
             /\ Proceed(s, "Connect", state[s])
             /\ UNCHANGED <<guard, file, stmt, fileConn>>
        ELSE Abort(s, "Connect", "error")
    /\ UNCHANGED dat

\* sqlx::query(CREATE_TABLE).execute(..) / conn.execute_batch(CREATE_TABLE)
Seed(s) ==
    /\ CurrentStep(s) = "Seed"
    /\ live[s] = "open"
    /\ LET r == ExecuteBatch([ok |-> TRUE, db |-> mem[s]], CREATE_TABLE) IN
       \E ok \in BOOLEAN :
        IF ok /\ r.ok
        THEN /\ mem' = [mem EXCEPT ![s] = r.db]
             /\ Proceed(s, "Seed", "Seeded")
             /\ UNCHANGED <<guard, file, live, stmt, fileConn>>
        ELSE Abort(s, "Seed", "error")
    /\ UNCHANGED dat

\* things = fetch_all(SELECT_ALL) / prepare + query_map; assert len == 2
ScanLive(s) ==
    /\ CurrentStep(s) = "ScanLive"
    /\ live[s] = "open"
    /\ LET r == SELECT_ALL(mem[s]) IN
       \E ok \in BOOLEAN :
        IF ok /\ r.ok
        THEN /\ things' = [things EXCEPT ![s] = r.rows]
             /\ IF Len(r.rows) = 2
                THEN /\ Proceed(s, "ScanLive", "VerifiedLive")
                     /\ stmt' = [stmt EXCEPT ![s] =
                                   IF s = "rusqlite" THEN "open" ELSE @]
                     /\ UNCHANGED <<guard, file, live, mem, fileConn>>
                ELSE Abort(s, "ScanLive", "assert")
        ELSE /\ Abort(s, "ScanLive", "error")
             /\ UNCHANGED things
    /\ UNCHANGED <<tables, stored_things>>

\* conn.execute(vacuum_into(db_path)) / conn.execute("vacuum into $1", [db_path])
Export(s) ==
    /\ CurrentStep(s) = "Export"
    /\ live[s] = "open"
    /\ LET r == vacuum_into(mem[s], file[s]) IN
       \E ok \in BOOLEAN :
        IF ok /\ r.ok
        THEN /\ file' = [file EXCEPT ![s] = r.file]
             /\ Proceed(s, "Export", "Exported")
             /\ UNCHANGED <<guard, live, mem, stmt, fileConn>>
        ELSE Abort(s, "Export", "error")
    /\ UNCHANGED dat

\* The temp-file guard dropped along with the live handle.
ReleaseDroppingGuard(s) ==
    /\ CurrentStep(s) = "Release"
    /\ live' = [live EXCEPT ![s] = Closed(@)]
    /\ stmt' = [stmt EXCEPT ![s] = Closed(@)]
    /\ mem' = [mem EXCEPT ![s] = EmptyStore]
    /\ guard' = [guard EXCEPT ![s] = FALSE]
    /\ file' = [file EXCEPT ![s] = DropTempFile(@)]
    /\ Proceed(s, "Release", "Released")
    /\ UNCHANGED <<fileConn, dat>>

\* drop(conn) / drop(pool) / drop(statement); drop(conn)
Release(s) ==
    /\ CurrentStep(s) = "Release"
    /\ live' = [live EXCEPT ![s] = Closed(@)]
    /\ stmt' = [stmt EXCEPT ![s] = Closed(@)]
    /\ mem' = [mem EXCEPT ![s] = EmptyStore]
    /\ Proceed(s, "Release", "Released")
    /\ UNCHANGED <<guard, file, fileConn, dat>>

\* assert!(new_db.as_ref().exists())
CheckExists(s) ==
    /\ CurrentStep(s) = "CheckExists"
    /\ IF file[s].exists
       THEN /\ Proceed(s, "CheckExists", state[s])
            /\ UNCHANGED res
       ELSE Abort(s, "CheckExists", "assert")
    /\ UNCHANGED dat

\* SqlitePool::connect(db_path) fails on a missing file;
\* rusqlite::Connection::open(new_db) opens one lazily.
Reopen(s) ==
    /\ CurrentStep(s) = "Reopen"
    /\ \E ok \in BOOLEAN :
        IF ok /\ (file[s].exists \/ s = "rusqlite")
        THEN /\ fileConn' = [fileConn EXCEPT ![s] = "open"]
             /\ stmt' = [stmt EXCEPT ![s] =
                            IF s = "rusqlite" THEN "open" ELSE @]
             /\ Proceed(s, "Reopen", state[s])
             /\ UNCHANGED <<guard, file, live, mem>>
        ELSE Abort(s, "Reopen", "error")
    /\ UNCHANGED dat

\* tables = fetch_all(sqlite_master query); assert!(tables.len() >= 1)
CheckCatalog(s) ==
    /\ CurrentStep(s) = "CheckCatalog"
    /\ fileConn[s] = "open"
    /\ \E ok \in BOOLEAN :
        IF ok
        THEN /\ tables' = [tables EXCEPT ![s] = TableCatalog(file[s].db)]
             /\ IF Cardinality(TableCatalog(file[s].db)) >= 1
                THEN /\ Proceed(s, "CheckCatalog", state[s])
                     /\ UNCHANGED res
                ELSE Abort(s, "CheckCatalog", "assert")
        ELSE /\ Abort(s, "CheckCatalog", "error")
             /\ UNCHANGED tables
    /\ UNCHANGED <<things, stored_things>>

\* stored_things = scan of the file; assert len == 2; assert_eq!(.., things)
ScanFile(s) ==
    /\ CurrentStep(s) = "ScanFile"
    /\ fileConn[s] = "open"
    /\ LET r == SELECT_ALL(file[s].db) IN
       \E ok \in BOOLEAN :
        IF ok /\ r.ok
        THEN /\ stored_things' = [stored_things EXCEPT ![s] = r.rows]
             /\ IF Len(r.rows) = 2 /\ r.rows = things[s]
                THEN /\ Proceed(s, "ScanFile", "VerifiedPersisted")
                     /\ UNCHANGED res
                ELSE Abort(s, "ScanFile", "assert")
        ELSE /\ Abort(s, "ScanFile", "error")
             /\ UNCHANGED stored_things
    /\ UNCHANGED <<things, tables>>

\* Ok(()): the locals go out of scope, new_db last.
Return(s) ==
    /\ CurrentStep(s) = "Return"
    /\ Proceed(s, "Return", "Done")
    /\ DropLocals(s)
    /\ UNCHANGED dat

Run(s) ==
    \/ Provision(s)
    \/ Connect(s)
    \/ Seed(s)
    \/ ScanLive(s)
    \/ Export(s)
    \/ Release(s)
    \/ CheckExists(s)
    \/ Reopen(s)
    \/ CheckCatalog(s)
    \/ ScanFile(s)
    \/ Return(s)

Next == \E s \in Strategies : Run(s)

Spec == Init /\ [][Next]_vars

\* Each test's runtime drives its routine to its end.
FairSpec == Spec /\ \A s \in Strategies : WF_vars(Run(s))

(***************************************************************************)
(* Properties.                                                             *)
(***************************************************************************)
Executed(s, step) == \E i \in 1..Len(hist[s]) : hist[s][i] = step
Succeeded(s, step) == Executed(s, step) /\ failedAt[s] # step

ExpectedSeed == << [id |-> 1, name |-> "hello"], [id |-> 2, name |-> "world"] >>

WorkflowStates ==
    << "Start", "Provisioned", "Seeded", "VerifiedLive", "Exported",
       "Released", "VerifiedPersisted", "Done" >>

\* The scan of the exported file returned rows (its assertions may follow).
FileScanReturned(s) ==
    /\ Executed(s, "ScanFile")
    /\ ~(failedAt[s] = "ScanFile" /\ cause[s] = "error")

\* C1 (round-trip fidelity): in every strategy, whenever the full-table scan
\* of the exported file has returned, the rows it returned equal the rows the
\* scan of the live in-memory store returned before the export: same count,
\* same id and name in every row, same order.
C1_RoundTrip ==
    \A s \in Strategies :
        FileScanReturned(s) =>
            /\ Len(stored_things[s]) = Len(things[s])
            /\ \A i \in 1..Len(things[s]) :
                /\ stored_things[s][i].id = things[s][i].id
                /\ stored_things[s][i].name = things[s][i].name

C1_Witness ==
    \A s \in Strategies :
        state[s] = "Done" /\ FileScanReturned(s) /\ Len(stored_things[s]) = 2

\* C2 (seed integrity): in every strategy, from the moment the seeding batch
\* has completed until the live handle is released, a full-table scan of the
\* in-memory store returns exactly [{1, "hello"}, {2, "world"}], and the scan
\* the routine makes reads exactly that sequence.
C2_SeedIntegrity ==
    \A s \in Strategies :
        /\ (Succeeded(s, "Seed") /\ live[s] = "open") =>
                SELECT_ALL(mem[s]) = [ok |-> TRUE, rows |-> ExpectedSeed]
        /\ Succeeded(s, "ScanLive") => things[s] = ExpectedSeed

C2_Witness ==
    \E s \in Strategies :
        /\ state[s] = "Exported" /\ live[s] = "open"
        /\ things[s] = ExpectedSeed

BeforeExport(s) ==
    Succeeded(s, "Provision") /\ ~Executed(s, "Export") /\ ~Terminal(s)

\* C3 as stated (export existence): the destination path does not exist at
\* any point from provisioning up to the export, and exists right after the
\* export returns successfully.
C3_Original ==
    \A s \in Strategies :
        /\ BeforeExport(s) => ~file[s].exists
        /\ state[s] = "Exported" => file[s].exists

\* C3 amended: from provisioning up to the export the destination path
\* exists as the zero-byte placeholder provisioning created and holds no
\* database; right after the export returns successfully it exists and holds
\* the exported store.
C3_ExportExistence ==
    \A s \in Strategies :
        /\ BeforeExport(s) => (file[s].exists /\ ~file[s].written)
        /\ state[s] = "Exported" =>
                /\ file[s].exists /\ file[s].written
                /\ file[s].db = mem[s]

C3_Witness ==
    \E s \in Strategies :
        state[s] = "Exported" /\ file[s].written /\ file[s].db.rows = ExpectedSeed

\* C4 (workflow ordering): a run that is Done has passed through Start,
\* Provisioned, Seeded, VerifiedLive, Exported, Released, VerifiedPersisted,
\* Done in that order, none skipped; the handle on the exported file is open
\* only after the export and the release of the live handle, and the two
\* handles are never open together.
C4_Ordering ==
    \A s \in Strategies :
        /\ state[s] = "Done" => trace[s] = WorkflowStates
        /\ ~(live[s] = "open" /\ fileConn[s] = "open")
        /\ fileConn[s] = "open" =>
                /\ live[s] = "closed"
                /\ Succeeded(s, "Export") /\ Succeeded(s, "Release")

C4_Witness ==
    \A s \in Strategies :
        state[s] = "Done" /\ fileConn[s] = "closed" /\ live[s] = "closed"

\* C5 as stated (catalog non-emptiness): in every strategy a run that is
\* Done has queried the catalog of the exported file and found "test" in it.
C5_Original ==
    \A s \in Strategies :
        state[s] = "Done" =>
            /\ Succeeded(s, "CheckCatalog")
            /\ Cardinality(tables[s]) >= 1
            /\ "test" \in tables[s]

\* C5 amended: in the two sqlx strategies a run reaches VerifiedPersisted or
\* Done only after the catalog of the exported file was queried and yielded
\* at least one table name, "test" among them; the rusqlite strategy never
\* queries the catalog.
C5_Catalog ==
    /\ \A s \in Sqlx :
        state[s] \in {"VerifiedPersisted", "Done"} =>
            /\ Succeeded(s, "CheckCatalog")
            /\ Cardinality(tables[s]) >= 1
            /\ "test" \in tables[s]
    /\ ~Executed("rusqlite", "CheckCatalog")
    /\ tables["rusqlite"] = {}

C5_Witness ==
    /\ \A s \in Sqlx : state[s] = "Done" /\ tables[s] = {"test"}
    /\ state["rusqlite"] = "Done"

Outcome(s) ==
    [state |-> state[s], trace |-> trace[s], hist |-> hist[s],
     cause |-> cause[s], things |-> things[s], tables |-> tables[s],
     stored |-> stored_things[s]]

NoRepeat(h) == \A i, j \in 1..Len(h) : h[i] = h[j] => i = j

OwnState(s) ==
    << state[s], trace[s], pos[s], hist[s], failedAt[s], cause[s], guard[s],
       file[s], live[s], mem[s], stmt[s], fileConn[s], things[s], tables[s],
       stored_things[s] >>

OwnStateNext(s) ==
    << state'[s], trace'[s], pos'[s], hist'[s], failedAt'[s], cause'[s],
       guard'[s], file'[s], live'[s], mem'[s], stmt'[s], fileConn'[s],
       things'[s], tables'[s], stored_things'[s] >>

C7_Inv ==
    \A s \in Strategies :
        /\ NoRepeat(hist[s])
        /\ failedAt[s] # "none" <=> state[s] = "Failed"
        /\ state[s] = "Failed" =>
                /\ hist[s][Len(hist[s])] = failedAt[s]
                /\ \A i \in 1..Len(hist[s]) : hist[s][i] = Program(s)[i]
                /\ cause[s] \in {"error", "assert"}

\* C7 (abort on first failure, no retry): a step that fails ends the run in
\* failure at that step, which is the last step the run executed; nothing of
\* that run changes afterwards; and no step is executed twice in a run.
C7_AbortNoRetry ==
    /\ []C7_Inv
    /\ [][\A s \in Strategies :
            state[s] = "Failed" => OwnStateNext(s) = OwnState(s)]_vars

C7_Witness ==
    /\ state["shared"] = "Failed" /\ failedAt["shared"] = "Export"
    /\ state["pooled"] = "Failed" /\ failedAt["pooled"] = "Provision"
    /\ state["rusqlite"] = "Failed" /\ failedAt["rusqlite"] = "ScanFile"

\* C9 as stated (handle release non-interference): once the live handle has
\* been released, nothing that follows fails.
C9_Original ==
    \A s \in Strategies : Succeeded(s, "Release") => state[s] # "Failed"

C9_Inv ==
    \A s \in Strategies :
        (Succeeded(s, "Release") /\ state[s] = "Failed") =>
            /\ cause[s] = "error"
            /\ failedAt[s] \in {"Reopen", "CheckCatalog", "ScanFile"}

\* C9 amended: once the export has succeeded and the live handle has been
\* released, the run never hangs: it ends, either Done or failed; and it
\* fails only when the reopen, the catalog query or the scan of the file
\* itself returns an error, never on an assertion about the exported data.
C9_ReleaseNonInterference ==
    /\ []C9_Inv
    /\ \A s \in Strategies : (state[s] = "Released") ~> Terminal(s)

C9_Witness ==
    /\ state["shared"] = "Done"
    /\ state["pooled"] = "Failed" /\ failedAt["pooled"] = "Reopen"
    /\ state["rusqlite"] = "Failed" /\ failedAt["rusqlite"] = "ScanFile"

\* C10 (lifetime of the export target): the temp-file guard is held from
\* provisioning until the routine ends; the exported file stays in place
\* from the export to the end of the post-export verification; and once the
\* routine has ended, passed or aborted, the file is gone.
C10_GuardLifetime ==
    \A s \in Strategies :
        /\ guard[s] <=> (Succeeded(s, "Provision") /\ ~Terminal(s))
        /\ guard[s] => file[s].exists
        /\ (Succeeded(s, "Export") /\ ~Terminal(s)) =>
                (file[s].exists /\ file[s].written)
        /\ Terminal(s) => ~file[s].exists

C10_Witness ==
    /\ state["shared"] = "Done" /\ ~file["shared"].exists
    /\ state["pooled"] = "Failed" /\ Succeeded("pooled", "Export")
    /\ ~file["pooled"].exists

====
